---- MODULE Spec2Model ----
(***************************************************************************)
(* The multipart/form-data body builder of ehttp (src/ehttp/src/           *)
(* multipart.rs) and the request constructor that consumes it              *)
(* (src/ehttp/src/types.rs).                                               *)
(*                                                                         *)
(* Bytes and characters are one-character strings; a byte buffer, a &str   *)
(* and a String are sequences of them.  An Option<T> is a sequence of      *)
(* length 0 (None) or 1 (Some(x)).                                         *)
(***************************************************************************)
EXTENDS Integers, Sequences, FiniteSets, TLC

VARIABLES
  boundary,      \* MultipartBuilder.boundary
  inner,         \* MultipartBuilder.inner
  data_written,  \* MultipartBuilder.data_written
  owner,         \* who holds the builder value: "caller", "dropped", "consumed"
  ret,           \* what the latest call returned: "new", "Ok" or "Err"
  result,        \* Option<(content_type, body)>: the pair finish returned
  request,       \* Option<Request>: what Request::multipart returned
  calls          \* the add_* calls that returned Ok, in call order

vars == <<boundary, inner, data_written, owner, ret, result, request, calls>>

(***************************************************************************)
(* Bounds of the model.                                                    *)
(***************************************************************************)
\* at most this many add_* calls are made on one builder
MaxFields == 2
\* the random digit streams the boundary is drawn from are numbered 0..MaxSeed
MaxSeed == 1

(***************************************************************************)
(* Option<T>.                                                              *)
(***************************************************************************)
None == <<>>
Some(x) == <<x>>
IsSome(o) == Len(o) = 1
Unwrap(o) == o[1]
\* Option::unwrap_or
unwrap_or(o, default) == IF IsSome(o) THEN Unwrap(o) ELSE default

(***************************************************************************)
(* String literals of the source.                                          *)
(***************************************************************************)
CRLF == <<"\r", "\n">>
BLANK_LINE == <<"\r", "\n", "\r", "\n">>
QUOTE == <<"\"">>
\* write_boundary: the dashes of "-----------------------------{}\r\n"
BOUNDARY_DASHES ==
  <<
    "-", "-", "-", "-", "-", "-", "-", "-", "-", "-", "-", "-", "-", "-",
    "-", "-", "-", "-", "-", "-", "-", "-", "-", "-", "-", "-", "-", "-", "-"
  >>
\* finish: the dashes before {} in "-----------------------------{}--\r\n"
CLOSING_DASHES ==
  <<
    "-", "-", "-", "-", "-", "-", "-", "-", "-", "-", "-", "-", "-", "-",
    "-", "-", "-", "-", "-", "-", "-", "-", "-", "-", "-", "-", "-", "-", "-"
  >>
\* finish: what follows {} in the closing line
CLOSING_TAIL ==
  <<
    "-", "-", "\r", "\n"
  >>
\* finish: "multipart/form-data; boundary=---------------------------{}"
CONTENT_TYPE_PREFIX ==
  <<
    "m", "u", "l", "t", "i", "p", "a", "r", "t", "/", "f", "o", "r", "m",
    "-", "d", "a", "t", "a", ";", " ", "b", "o", "u", "n", "d", "a", "r",
    "y", "=", "-", "-", "-", "-", "-", "-", "-", "-", "-", "-", "-", "-",
    "-", "-", "-", "-", "-", "-", "-", "-", "-", "-", "-", "-", "-", "-", "-"
  >>
\* write_field_headers: "Content-Disposition: form-data; name=\"{name}\""
DISPOSITION_PREFIX ==
  <<
    "C", "o", "n", "t", "e", "n", "t", "-", "D", "i", "s", "p", "o", "s",
    "i", "t", "i", "o", "n", ":", " ", "f", "o", "r", "m", "-", "d", "a",
    "t", "a", ";", " ", "n", "a", "m", "e", "=", "\""
  >>
\* write_field_headers: "; filename=\"{filename}\""
FILENAME_PREFIX ==
  <<
    ";", " ", "f", "i", "l", "e", "n", "a", "m", "e", "=", "\""
  >>
\* write_field_headers: "\r\nContent-Type: {content_type}"
CONTENT_TYPE_LINE_PREFIX ==
  <<
    "\r", "\n", "C", "o", "n", "t", "e", "n", "t", "-", "T", "y", "p", "e",
    ":", " "
  >>
\* mime::APPLICATION_OCTET_STREAM, as Display prints it
APPLICATION_OCTET_STREAM ==
  <<
    "a", "p", "p", "l", "i", "c", "a", "t", "i", "o", "n", "/", "o", "c",
    "t", "e", "t", "-", "s", "t", "r", "e", "a", "m"
  >>
\* mime::TEXT_PLAIN
TEXT_PLAIN ==
  <<
    "t", "e", "x", "t", "/", "p", "l", "a", "i", "n"
  >>
\* mime::IMAGE_PNG
IMAGE_PNG ==
  <<
    "i", "m", "a", "g", "e", "/", "p", "n", "g"
  >>

(***************************************************************************)
(* The boundary token: random_alphanumeric.                                *)
(***************************************************************************)
BOUNDARY_LEN == 29

\* num.to_string() for a num of 0..=9
to_string(num) ==
  <<"0", "1", "2", "3", "4", "5", "6", "7", "8", "9">>[num + 1]

\* The i-th draw of the random digit stream numbered seed, a value of
\* Uniform::from(0..=9).
sample(seed, i) == (seed * i) % 10

\* random_alphanumeric(len): the tokens the call can return, one per stream.
random_alphanumeric(len) ==
  { [i \in 1..len |-> to_string(sample(seed, i))] : seed \in 0..MaxSeed }

(***************************************************************************)
(* Paths, and what mime_guess and the file system make of them.            *)
(* A path is its components; name_utf8 and ext_utf8 tell whether the final *)
(* component and its extension are valid UTF-8 (OsStr::to_str succeeds).   *)
(***************************************************************************)
DOT == "."
PARENT_DIR == <<".", ".">>

\* the index of the last DOT of s, 0 when there is none
LastDot(s) ==
  LET dots == { i \in 1..Len(s) : s[i] = DOT }
  IN  IF dots = {} THEN 0 ELSE CHOOSE i \in dots : \A j \in dots : j <= i

\* Path::file_name: the final component, None when the path is empty or
\* ends in ".."
file_name(path) ==
  IF Len(path.comps) = 0 \/ path.comps[Len(path.comps)] = PARENT_DIR
  THEN None
  ELSE Some(path.comps[Len(path.comps)])

\* Path::extension: what follows the last dot of the file name; None when
\* there is no file name, no dot, or the only dot is the leading one
extension(path) ==
  IF ~IsSome(file_name(path)) THEN None
  ELSE LET f == Unwrap(file_name(path))
           d == LastDot(f)
       IN  IF d <= 1 THEN None ELSE Some(SubSeq(f, d + 1, Len(f)))

opt_filename(path) ==
  IF IsSome(file_name(path)) /\ path.name_utf8
  THEN file_name(path)
  ELSE None

\* mime_guess's table, the extensions the model's paths use
MimeTable(ext) ==
  CASE ext = <<"t", "x", "t">> -> Some(TEXT_PLAIN)
    [] ext = <<"p", "n", "g">> -> Some(IMAGE_PNG)
    [] OTHER -> None

\* mime_guess::from_path(path): the guess, None when the extension is
\* missing, not UTF-8 or unknown
from_path(path) ==
  IF IsSome(extension(path)) /\ path.ext_utf8
  THEN MimeTable(Unwrap(extension(path)))
  ELSE None

\* MimeGuess::first_or_octet_stream
first_or_octet_stream(guess) == unwrap_or(guess, APPLICATION_OCTET_STREAM)

mime_filename(path) ==
  LET content_type == from_path(path)
      filename == opt_filename(path)
  IN  <<first_or_octet_stream(content_type), filename>>

(***************************************************************************)
(* Byte sources.  A source yields the bytes of data in order; when err_at  *)
(* is Some(k) its read fails once k bytes were delivered.                  *)
(***************************************************************************)
Source(data, err_at) == [data |-> data, err_at |-> err_at]

\* io::copy into a buffer it clears first
io_copy_truncating(stream, buf) ==
  IF IsSome(stream.err_at)
  THEN [ok |-> FALSE, buf |-> SubSeq(stream.data, 1, Unwrap(stream.err_at))]
  ELSE [ok |-> TRUE, buf |-> stream.data]

\* io::copy(stream, &mut buf): the buffer afterwards and whether it
\* returned Ok
io_copy(stream, buf) ==
  IF IsSome(stream.err_at)
  THEN [ok |-> FALSE,
        buf |-> buf \o SubSeq(stream.data, 1, Unwrap(stream.err_at))]
  ELSE [ok |-> TRUE, buf |-> buf \o stream.data]

(***************************************************************************)
(* MultipartBuilder.  A builder value is a record of its three fields.     *)
(***************************************************************************)
Builder(b, i, d) == [boundary |-> b, inner |-> i, data_written |-> d]

self == Builder(boundary, inner, data_written)

\* boundary_line with the dashes of the content type's boundary parameter
boundary_line_short(token) ==
  SubSeq(BOUNDARY_DASHES, 1, Len(BOUNDARY_DASHES) - 2) \o token \o CRLF

\* write!(self.inner, "-----------------------------{}\r\n", self.boundary)
boundary_line(token) == BOUNDARY_DASHES \o token \o CRLF

\* closing_line without the two dashes that mark the last delimiter
closing_line_unmarked(token) == CLOSING_DASHES \o token \o CRLF

\* write!(self.inner, "-----------------------------{}--\r\n", self.boundary)
closing_line(token) == CLOSING_DASHES \o token \o CLOSING_TAIL

\* content_type_header announcing the dashes the delimiter lines start with
content_type_header_long(token) ==
  CONTENT_TYPE_PREFIX \o <<"-", "-">> \o token

\* content_type_header announcing a token drawn anew
content_type_header_fresh(token) ==
  CONTENT_TYPE_PREFIX \o [i \in 1..Len(token) |-> to_string(sample(7, i))]

\* format!("multipart/form-data; boundary=---------------------------{}", ..)
content_type_header(token) == CONTENT_TYPE_PREFIX \o token

\* write_boundary writing its CRLF whether or not a field was written
write_boundary_always_separator(b) ==
  LET b1 == [b EXCEPT !.inner = @ \o CRLF]
  IN  [b1 EXCEPT !.inner = @ \o boundary_line(b1.boundary)]

write_boundary(b) ==
  LET b1 == IF b.data_written
            THEN [b EXCEPT !.inner = @ \o CRLF]
            ELSE b
  IN  [b1 EXCEPT !.inner = @ \o boundary_line(b1.boundary)]

\* write_field_headers ending the header block with one CRLF only
write_field_headers_no_blank_line(b, name, filename, content_type) ==
  LET b1 == write_boundary(b)
      b2 == [b1 EXCEPT !.data_written = TRUE]
      b3 == [b2 EXCEPT !.inner = @ \o DISPOSITION_PREFIX \o name \o QUOTE]
      b4 == IF IsSome(filename)
            THEN [b3 EXCEPT !.inner =
                    @ \o FILENAME_PREFIX \o Unwrap(filename) \o QUOTE]
            ELSE b3
      b5 == IF IsSome(content_type)
            THEN [b4 EXCEPT !.inner =
                    @ \o CONTENT_TYPE_LINE_PREFIX \o Unwrap(content_type)]
            ELSE b4
  IN  [b5 EXCEPT !.inner = @ \o CRLF]

\* write_field_headers leaving data_written as it found it
write_field_headers_unflagged(b, name, filename, content_type) ==
  LET b1 == write_boundary(b)
      b3 == [b1 EXCEPT !.inner = @ \o DISPOSITION_PREFIX \o name \o QUOTE]
      b4 == IF IsSome(filename)
            THEN [b3 EXCEPT !.inner =
                    @ \o FILENAME_PREFIX \o Unwrap(filename) \o QUOTE]
            ELSE b3
      b5 == IF IsSome(content_type)
            THEN [b4 EXCEPT !.inner =
                    @ \o CONTENT_TYPE_LINE_PREFIX \o Unwrap(content_type)]
            ELSE b4
  IN  [b5 EXCEPT !.inner = @ \o BLANK_LINE]

write_field_headers(b, name, filename, content_type) ==
  LET b1 == write_boundary(b)
      b2 == IF ~b1.data_written
            THEN [b1 EXCEPT !.data_written = TRUE]
            ELSE b1
      b3 == [b2 EXCEPT !.inner = @ \o DISPOSITION_PREFIX \o name \o QUOTE]
      b4 == IF IsSome(filename)
            THEN [b3 EXCEPT !.inner =
                    @ \o FILENAME_PREFIX \o Unwrap(filename) \o QUOTE]
            ELSE b3
      b5 == IF IsSome(content_type)
            THEN [b4 EXCEPT !.inner =
                    @ \o CONTENT_TYPE_LINE_PREFIX \o Unwrap(content_type)]
            ELSE b4
  IN  [b5 EXCEPT !.inner = @ \o BLANK_LINE]

\* add_text ending its field with a CRLF of its own
add_text_body_terminated(b, name, text) ==
  LET b1 == write_field_headers(b, name, None, None)
  IN  [ok |-> TRUE, builder |-> [b1 EXCEPT !.inner = @ \o text \o CRLF]]

\* add_text giving its field a content type
add_text_body_typed(b, name, text) ==
  LET b1 == write_field_headers(b, name, None, Some(TEXT_PLAIN))
  IN  [ok |-> TRUE, builder |-> [b1 EXCEPT !.inner = @ \o text]]

\* The builder state and return value of add_text(self, name, text).
add_text_body(b, name, text) ==
  LET b1 == write_field_headers(b, name, None, None)
  IN  [ok |-> TRUE, builder |-> [b1 EXCEPT !.inner = @ \o text]]

\* add_stream passing the content type on as it was given
add_stream_body_no_default(b, stream, name, filename, content_type) ==
  LET b1 == write_field_headers(b, name, filename, content_type)
      copied == io_copy(stream, b1.inner)
  IN  [ok |-> copied.ok, builder |-> [b1 EXCEPT !.inner = copied.buf]]

\* The builder state and return value of add_stream(self, stream, ...).
add_stream_body(b, stream, name, filename, content_type) ==
  LET ct == Some(unwrap_or(content_type, APPLICATION_OCTET_STREAM))
      b1 == write_field_headers(b, name, filename, ct)
      copied == io_copy(stream, b1.inner)
  IN  [ok |-> copied.ok, builder |-> [b1 EXCEPT !.inner = copied.buf]]

\* add_file handing no filename on to add_stream
add_file_body_unnamed(b, name, path, opened) ==
  LET mf == mime_filename(path)
  IN  IF ~IsSome(opened)
      THEN [ok |-> FALSE, builder |-> b]
      ELSE add_stream_body(b, Unwrap(opened), name, None, Some(mf[1]))

\* The builder state and return value of add_file(self, name, path), where
\* opened is what File::open(path) returned: None for an Err, Some(file)
\* for the open file.
add_file_body(b, name, path, opened) ==
  LET mf == mime_filename(path)
  IN  IF ~IsSome(opened)
      THEN [ok |-> FALSE, builder |-> b]
      ELSE add_stream_body(b, Unwrap(opened), name, mf[2], Some(mf[1]))

\* finish without the CRLF that ends the last field's content
finish_body_no_separator(b) ==
  LET b2 == [b EXCEPT !.inner = @ \o closing_line(b.boundary)]
  IN  [content_type |-> content_type_header(b2.boundary), body |-> b2.inner]

\* finish writing its CRLF whether or not a field was written
finish_body_always_separator(b) ==
  LET b1 == [b EXCEPT !.inner = @ \o CRLF]
      b2 == [b1 EXCEPT !.inner = @ \o closing_line(b1.boundary)]
  IN  [content_type |-> content_type_header(b2.boundary), body |-> b2.inner]

\* The pair finish(self) returns.
finish_body(b) ==
  LET b1 == IF b.data_written
            THEN [b EXCEPT !.inner = @ \o CRLF]
            ELSE b
      b2 == [b1 EXCEPT !.inner = @ \o closing_line(b1.boundary)]
  IN  [content_type |-> content_type_header(b2.boundary), body |-> b2.inner]

(***************************************************************************)
(* The inputs the calls are made with.                                     *)
(***************************************************************************)
MSG == <<"m", "s", "g">>
HI == <<"h", "i">>
EMPTY == <<>>
\* a name with a quote, a line break and a blank line in it:
\* a"\r\nContent-Type: x\r\n\r\n
MALFORMED_NAME ==
  <<
    "a", "\"", "\r", "\n", "C", "o", "n", "t", "e", "n", "t", "-", "T", "y",
    "p", "e", ":", " ", "x", "\r", "\n", "\r", "\n"
  >>
\* a content that is the closing line of the all-zero token:
\* 29 dashes, 29 zeros, "--", CRLF
COLLIDING_TEXT ==
  <<
    "-", "-", "-", "-", "-", "-", "-", "-", "-", "-", "-", "-", "-", "-",
    "-", "-", "-", "-", "-", "-", "-", "-", "-", "-", "-", "-", "-", "-",
    "-", "0", "0", "0", "0", "0", "0", "0", "0", "0", "0", "0", "0", "0",
    "0", "0", "0", "0", "0", "0", "0", "0", "0", "0", "0", "0", "0", "0",
    "0", "0", "-", "-", "\r", "\n"
  >>
\* a name that closes its own quotes and adds an attribute: a"; filename="b
QUOTING_NAME ==
  <<"a", "\"", ";", " ", "f", "i", "l", "e", "n", "a", "m", "e", "=", "\"", "b">>

Names == {MSG, EMPTY, MALFORMED_NAME, QUOTING_NAME}
Texts == {HI, COLLIDING_TEXT}
StreamNames == {MSG}
FileNames == {<<"f">>}
Filenames == {None, Some(<<"a", ".", "t", "x", "t">>)}
ContentTypes == {None, Some(TEXT_PLAIN)}
\* an empty source read to its end, and one whose read fails after one byte
Sources == {Source(EMPTY, None), Source(HI, Some(1))}
Urls == {<<"u">>}

Path(comps, name_utf8, ext_utf8) ==
  [comps |-> comps, name_utf8 |-> name_utf8, ext_utf8 |-> ext_utf8]

Paths ==
  { Path(<< <<"d">>, <<"a", ".", "t", "x", "t">> >>, TRUE, TRUE),
    Path(<< <<"c">> >>, TRUE, TRUE),
    Path(<< <<".", "t", "x", "t">> >>, TRUE, TRUE),
    Path(<< <<"d">>, PARENT_DIR >>, TRUE, TRUE),
    Path(<< <<"e", ".", "p", "n", "g">> >>, FALSE, TRUE) }

\* File::open(path): an Err, or a file whose reads behave as a source does
OpenResults == {None} \cup { Some(s) : s \in Sources }

(***************************************************************************)
(* The state after MultipartBuilder::new().                                *)
(***************************************************************************)
Init ==
  /\ boundary \in random_alphanumeric(BOUNDARY_LEN)
  /\ inner = <<>>
  /\ data_written = FALSE
  /\ owner = "caller"
  /\ ret = "new"
  /\ result = None
  /\ request = None
  /\ calls = <<>>

\* An add_* call that returned r: its arguments, and the lengths of the
\* buffer when it was entered (start) and when it returned (end).
Call(op, name, filename, content_type, path, content, r) ==
  [op |-> op, name |-> name, filename |-> filename,
   content_type |-> content_type, path |-> path, content |-> content,
   start |-> Len(inner), end |-> Len(r.builder.inner)]

\* an add_* call that hands the builder back whatever it returns
owner_after_kept(ok) == "caller"

\* The owner of the builder after an add_* call: the caller again when the
\* call returned Ok(self); on Err the builder was dropped inside the call.
owner_after(ok) == IF ok THEN "caller" ELSE "dropped"

\* The effect of an add_* call that returned r.
Return(r, call) ==
  /\ boundary' = r.builder.boundary
  /\ inner' = r.builder.inner
  /\ data_written' = r.builder.data_written
  /\ owner' = owner_after(r.ok)
  /\ ret' = IF r.ok THEN "Ok" ELSE "Err"
  /\ calls' = IF r.ok THEN Append(calls, call) ELSE calls
  /\ UNCHANGED <<result, request>>

add_text ==
  /\ owner = "caller"
  /\ Len(calls) < MaxFields
  /\ \E name \in Names, text \in Texts :
       LET r == add_text_body(self, name, text)
       IN  Return(r, Call("add_text", name, None, None, None, text, r))

add_stream ==
  /\ owner = "caller"
  /\ Len(calls) < MaxFields
  /\ \E stream \in Sources, name \in StreamNames,
        filename \in Filenames, content_type \in ContentTypes :
       LET r == add_stream_body(self, stream, name, filename, content_type)
       IN  Return(r, Call("add_stream", name, filename, content_type, None,
                          stream.data, r))

add_file ==
  /\ owner = "caller"
  /\ Len(calls) < MaxFields
  /\ \E name \in FileNames, path \in Paths, opened \in OpenResults :
       LET r == add_file_body(self, name, path, opened)
       IN  Return(r, Call("add_file", name, None, None, Some(path),
                          IF IsSome(opened) THEN Unwrap(opened).data
                          ELSE EMPTY, r))

finish ==
  /\ owner = "caller"
  /\ LET r == finish_body(self)
     IN  /\ inner' = r.body
         /\ result' = Some(r)
  /\ owner' = "consumed"
  /\ ret' = "Ok"
  /\ UNCHANGED <<boundary, data_written, request, calls>>

\* Method::Post.to_string()
POST == <<"P", "O", "S", "T">>
ACCEPT_ALL == <<"*", "/", "*">>

\* crate::headers(&[("Accept", "*/*"), ("Content-Type", content_type)])
headers(content_type) ==
  [Accept |-> ACCEPT_ALL, ContentType |-> content_type]

\* Request::multipart sending the buffer as it stood before finish
multipart_unfinished ==
  /\ owner = "caller"
  /\ \E url \in Urls :
       LET r == finish_body(self)
       IN  /\ inner' = r.body
           /\ result' = Some(r)
           /\ request' = Some([method |-> POST, url |-> url, body |-> inner,
                               headers |-> headers(r.content_type)])
  /\ owner' = "consumed"
  /\ ret' = "Ok"
  /\ UNCHANGED <<boundary, data_written, calls>>

\* Request::multipart(url, builder)
multipart ==
  /\ owner = "caller"
  /\ \E url \in Urls :
       LET r == finish_body(self)
       IN  /\ inner' = r.body
           /\ result' = Some(r)
           /\ request' = Some([method |-> POST, url |-> url, body |-> r.body,
                               headers |-> headers(r.content_type)])
  /\ owner' = "consumed"
  /\ ret' = "Ok"
  /\ UNCHANGED <<boundary, data_written, calls>>

Next == add_text \/ add_stream \/ add_file \/ finish \/ multipart

Spec == Init /\ [][Next]_vars

(***************************************************************************)
(* Type invariant.                                                         *)
(***************************************************************************)
TypeOK ==
  /\ Len(boundary) = BOUNDARY_LEN
  /\ data_written \in BOOLEAN
  /\ owner \in {"caller", "dropped", "consumed"}
  /\ ret \in {"new", "Ok", "Err"}
  /\ Len(calls) <= MaxFields

(***************************************************************************)
(* The vocabulary of the properties: the wire format as the documentation  *)
(* writes it, and where in the buffer each call wrote.                     *)
(***************************************************************************)
\* the length of the dash-run of a delimiter line
DASH_RUN_LEN == 29
\* the length of the dash-run in the boundary parameter of the content type
PARAM_DASH_LEN == 27

DashRun(n) == [i \in 1..n |-> "-"]
TWO_DASHES == <<"-", "-">>
\* Content-Disposition: form-data; name="
DISPOSITION ==
  <<
    "C", "o", "n", "t", "e", "n", "t", "-", "D", "i", "s", "p", "o", "s",
    "i", "t", "i", "o", "n", ":", " ", "f", "o", "r", "m", "-", "d", "a",
    "t", "a", ";", " ", "n", "a", "m", "e", "=", "\""
  >>
\* ; filename="
FILENAME_ATTR ==
  <<
    ";", " ", "f", "i", "l", "e", "n", "a", "m", "e", "=", "\""
  >>
\* Content-Type:
CONTENT_TYPE_FIELD ==
  <<
    "C", "o", "n", "t", "e", "n", "t", "-", "T", "y", "p", "e", ":"
  >>
\* multipart/form-data; boundary=
MULTIPART_FORM_DATA ==
  <<
    "m", "u", "l", "t", "i", "p", "a", "r", "t", "/", "f", "o", "r", "m",
    "-", "d", "a", "t", "a", ";", " ", "b", "o", "u", "n", "d", "a", "r",
    "y", "="
  >>

\* s occurs in t at index i
OccursAt(s, t, i) ==
  /\ i >= 1
  /\ i + Len(s) - 1 <= Len(t)
  /\ \A k \in 1..Len(s) : t[i + k - 1] = s[k]

\* the least element of the non-empty set S of numbers
Min(S) == CHOOSE x \in S : \A y \in S : x <= y

Occurrences(s, t) == { i \in 1..Len(t) : OccursAt(s, t, i) }
Contains(s, t) == Occurrences(s, t) # {}
StartsWith(s, t) == OccursAt(s, t, 1)
EndsWith(s, t) == Len(s) <= Len(t) /\ OccursAt(s, t, Len(t) - Len(s) + 1)

\* index i of t starts a line: it is the first, or a CRLF ends just before
LineStart(t, i) == i = 1 \/ (i > 2 /\ t[i - 2] = "\r" /\ t[i - 1] = "\n")

\* the delimiter: dash-run + boundary token
Delimiter == DashRun(DASH_RUN_LEN) \o boundary
DelimiterLine == Delimiter \o CRLF
ClosingDelimiterLine == Delimiter \o TWO_DASHES \o CRLF

\* the body finish returned
Body == Unwrap(result).body
Finished == IsSome(result)
NumFields == Len(calls)

\* the filename and the content type the field of call c is to carry
FieldFilename(c) ==
  CASE c.op = "add_text" -> None
    [] c.op = "add_stream" -> c.filename
    [] c.op = "add_file" -> opt_filename(Unwrap(c.path))

FieldType(c) ==
  CASE c.op = "add_text" -> None
    [] c.op = "add_stream" ->
         Some(unwrap_or(c.content_type, APPLICATION_OCTET_STREAM))
    [] c.op = "add_file" ->
         Some(unwrap_or(from_path(Unwrap(c.path)), APPLICATION_OCTET_STREAM))

\* the texts the caller supplied for the field of call c
FieldTexts(c) ==
  {c.name, c.content} \cup
  (IF IsSome(FieldFilename(c)) THEN {Unwrap(FieldFilename(c))} ELSE {})

\* no name, filename or content of a field contains the delimiter
NoCollision ==
  LET d == Delimiter
  IN  \A i \in 1..NumFields :
        \A s \in FieldTexts(calls[i]) : ~Contains(d, s)

(***************************************************************************)
(* C1.  The closing delimiter line, once and last.                         *)
(***************************************************************************)
ClosingLines(body) ==
  LET line == ClosingDelimiterLine
  IN  { i \in 1..Len(body) :
          body[i] = "-" /\ LineStart(body, i) /\ OccursAt(line, body, i) }

ClosedOnce(body) ==
  ClosingLines(body) = {Len(body) - Len(ClosingDelimiterLine) + 1}

\* C1 as stated: whatever fields were added, the body finish returns holds
\* the closing delimiter line (dash-run + boundary token + "--" + CRLF)
\* exactly once, as its last line.
C1Original == Finished => ClosedOnce(Body)

\* C1, amended: when no name, filename or content of an added field contains
\* the delimiter (dash-run + boundary token), the body finish returns holds
\* the closing delimiter line exactly once, as its last line; with zero
\* fields too.
C1ClosingLineOnceAndLast == (Finished /\ NoCollision) => ClosedOnce(Body)

C1Witness == Finished /\ NoCollision /\ NumFields = 2 /\ ClosedOnce(Body)

(***************************************************************************)
(* C2.  The body, field by field.                                          *)
(***************************************************************************)
\* --<dashes><boundary>, the dashes being those of the boundary parameter
\* of the content type
WireDelimiter == TWO_DASHES \o DashRun(PARAM_DASH_LEN) \o boundary

\* the header block of the field of call c, each line with its CRLF
HeaderBlock(c) ==
  DISPOSITION \o c.name \o QUOTE
  \o (IF IsSome(FieldFilename(c))
      THEN FILENAME_ATTR \o Unwrap(FieldFilename(c)) \o QUOTE
      ELSE <<>>)
  \o CRLF
  \o (IF IsSome(FieldType(c))
      THEN CONTENT_TYPE_FIELD \o <<" ">> \o Unwrap(FieldType(c)) \o CRLF
      ELSE <<>>)

RECURSIVE ExpectedBody(_)
ExpectedBody(cs) ==
  IF cs = <<>>
  THEN WireDelimiter \o TWO_DASHES \o CRLF
  ELSE WireDelimiter \o CRLF
       \o HeaderBlock(Head(cs)) \o CRLF
       \o Head(cs).content \o CRLF
       \o ExpectedBody(Tail(cs))

\* Content-Disposition: form-data; name="msg"\r\n\r\nhi\r\n
MSG_HI_FIELD ==
  <<
    "C", "o", "n", "t", "e", "n", "t", "-", "D", "i", "s", "p", "o", "s",
    "i", "t", "i", "o", "n", ":", " ", "f", "o", "r", "m", "-", "d", "a",
    "t", "a", ";", " ", "n", "a", "m", "e", "=", "\"", "m", "s", "g", "\"",
    "\r", "\n", "\r", "\n", "h", "i", "\r", "\n"
  >>

IsMsgHi ==
  /\ NumFields = 1
  /\ calls[1].op = "add_text"
  /\ calls[1].name = MSG
  /\ calls[1].content = HI

\* C2: after n >= 1 successful add_* calls the body finish returns is, for
\* each field in call order, a delimiter line, the field's header block, a
\* blank line, the field's bytes and a CRLF, and then the closing delimiter
\* line; new -> add_text("msg", "hi") -> finish gives
\* --<dashes><boundary> CRLF Content-Disposition: form-data; name="msg" CRLF
\* CRLF hi CRLF --<dashes><boundary>-- CRLF.
C2BodyIsFieldsInOrder ==
  (Finished /\ NumFields >= 1) =>
    /\ Body = ExpectedBody(calls)
    /\ IsMsgHi =>
         Body = WireDelimiter \o CRLF \o MSG_HI_FIELD
                \o WireDelimiter \o TWO_DASHES \o CRLF

C2Witness == Finished /\ IsMsgHi

(***************************************************************************)
(* C3.  finish on a builder without fields.                                *)
(***************************************************************************)
\* C3 as stated: finish on a new builder succeeds and returns exactly "--",
\* then 29 dashes, then the boundary token, then "--" and CRLF.
C3Original ==
  /\ (owner = "caller" /\ NumFields = 0) => ENABLED finish
  /\ (Finished /\ NumFields = 0) =>
       /\ ret = "Ok"
       /\ Body = TWO_DASHES \o DashRun(DASH_RUN_LEN) \o boundary
                 \o TWO_DASHES \o CRLF

\* C3, amended: finish on a new builder succeeds and returns exactly a run
\* of 29 dashes (the "--" that opens a delimiter and the 27 dashes of the
\* boundary parameter), then the boundary token, then "--" and CRLF.
C3EmptyBodyIsClosingLine ==
  /\ (owner = "caller" /\ NumFields = 0) => ENABLED finish
  /\ (Finished /\ NumFields = 0) =>
       /\ ret = "Ok"
       /\ Body = DashRun(DASH_RUN_LEN) \o boundary \o TWO_DASHES \o CRLF
       /\ Body = TWO_DASHES \o DashRun(PARAM_DASH_LEN) \o boundary
                 \o TWO_DASHES \o CRLF

C3Witness == Finished /\ NumFields = 0 /\ ret = "Ok" /\ ~IsSome(request)

(***************************************************************************)
(* C4.  The CRLF before a delimiter.                                       *)
(***************************************************************************)
\* the buffer length when the last add_* call returned
FieldsEnd == IF NumFields = 0 THEN 0 ELSE calls[NumFields].end

\* the content of the field of call i is the last thing that call wrote
ContentEndsCall(i) ==
  OccursAt(calls[i].content, inner,
           calls[i].end - Len(calls[i].content) + 1)

\* C4: the first add_* call writes its delimiter line at the very start of
\* the buffer, with no CRLF before it; every later call writes one CRLF and
\* then its delimiter line, right after the content of the field before;
\* finish writes one CRLF before the closing delimiter line if and only if
\* a field was written.  So with a text field and then a file field, the
\* first field's content, one CRLF and the second delimiter line follow one
\* another.
C4SeparatorBeforeDelimiter ==
  /\ \A i \in 1..NumFields :
       /\ ContentEndsCall(i)
       /\ i = 1 =>
            /\ calls[i].start = 0
            /\ OccursAt(DelimiterLine, inner, 1)
       /\ i > 1 =>
            /\ calls[i].start = calls[i - 1].end
            /\ OccursAt(CRLF \o DelimiterLine, inner, calls[i].start + 1)
  /\ Finished =>
       /\ NumFields = 0 => Body = ClosingDelimiterLine
       /\ NumFields >= 1 =>
            /\ OccursAt(CRLF \o ClosingDelimiterLine, Body, FieldsEnd + 1)
            /\ Len(Body) = FieldsEnd + Len(CRLF \o ClosingDelimiterLine)

C4Witness ==
  /\ Finished
  /\ NumFields = 2
  /\ calls[1].op = "add_text"
  /\ calls[2].op = "add_file"
  /\ calls[1].content = HI

(***************************************************************************)
(* The header block of a field: what lies between its delimiter line and   *)
(* its content, the blank line that ends it included.                      *)
(***************************************************************************)
HeaderStart(i) ==
  calls[i].start + (IF i = 1 THEN 0 ELSE Len(CRLF)) + Len(DelimiterLine) + 1

ContentStart(i) == calls[i].end - Len(calls[i].content) + 1

FieldHeader(i) == SubSeq(inner, HeaderStart(i), ContentStart(i) - 1)

\* the lines of s, which CRLF separates
RECURSIVE Lines(_)
Lines(s) ==
  LET ends == Occurrences(CRLF, s)
  IN  IF ends = {}
      THEN <<s>>
      ELSE LET k == Min(ends)
           IN  <<SubSeq(s, 1, k - 1)>>
               \o Lines(SubSeq(s, k + Len(CRLF), Len(s)))

\* the lines of the header block of field i, before the blank line
HeaderLines(i) ==
  Lines(SubSeq(FieldHeader(i), 1, Len(FieldHeader(i)) - Len(BLANK_LINE)))

(***************************************************************************)
(* C5.  The header block of a text field.                                  *)
(***************************************************************************)
TextHeaderOnly(i) ==
  LET ls == HeaderLines(i)
      line == DISPOSITION \o calls[i].name \o QUOTE
      own == { j \in 1..Len(ls) : StartsWith(line, ls[j]) }
  IN  /\ EndsWith(BLANK_LINE, FieldHeader(i))
      /\ Cardinality(own) = 1
      /\ \A j \in own : ~Contains(FILENAME_ATTR, ls[j])
      /\ \A j \in 1..Len(ls) : ~StartsWith(CONTENT_TYPE_FIELD, ls[j])

WellFormed(name) ==
  \A k \in 1..Len(name) : name[k] \notin {"\"", "\r", "\n"}

\* C5 as stated: the header block of every field added with add_text and a
\* non-empty name has exactly one Content-Disposition: form-data;
\* name="<name>" line, without a filename attribute, and no Content-Type
\* line.
C5Original ==
  \A i \in 1..NumFields :
    (calls[i].op = "add_text" /\ calls[i].name # EMPTY) => TextHeaderOnly(i)

\* C5, amended: the header block of every field added with add_text and a
\* non-empty name that holds no double quote, CR or LF has exactly one
\* Content-Disposition: form-data; name="<name>" line, without a filename
\* attribute, and no Content-Type line.
C5TextFieldHeader ==
  \A i \in 1..NumFields :
    (/\ calls[i].op = "add_text"
     /\ calls[i].name # EMPTY
     /\ WellFormed(calls[i].name)) => TextHeaderOnly(i)

C5Witness ==
  /\ Finished
  /\ NumFields = 2
  /\ calls[2].op = "add_text"
  /\ calls[2].name = MSG
  /\ TextHeaderOnly(2)

(***************************************************************************)
(* C6.  The Content-Type line of a stream or file field.                   *)
(***************************************************************************)
\* Content-Type: application/octet-stream
OCTET_STREAM_LINE ==
  <<
    "C", "o", "n", "t", "e", "n", "t", "-", "T", "y", "p", "e", ":", " ",
    "a", "p", "p", "l", "i", "c", "a", "t", "i", "o", "n", "/", "o", "c",
    "t", "e", "t", "-", "s", "t", "r", "e", "a", "m"
  >>

\* the header block of field i ends with this line and the blank line
LastHeaderLine(i, line) ==
  LET end == CRLF \o line \o BLANK_LINE
  IN  /\ ~Contains(CRLF, line)
      /\ HeaderStart(i) <= ContentStart(i) - Len(end)
      /\ OccursAt(end, inner, ContentStart(i) - Len(end))

\* the call gave no type, or inference from the path's extension found none
Untyped(c) ==
  \/ c.op = "add_stream" /\ ~IsSome(c.content_type)
  \/ c.op = "add_file" /\ ~IsSome(from_path(Unwrap(c.path)))

\* C6: the header block of every field added with add_stream or add_file
\* ends with a Content-Type line: of the type given to add_stream, of the
\* type inferred from the extension of add_file's path, and of
\* application/octet-stream when no type was given or none was inferred.
C6StreamFieldHasContentType ==
  \A i \in 1..NumFields :
    calls[i].op \in {"add_stream", "add_file"} =>
      /\ LastHeaderLine(i, CONTENT_TYPE_FIELD \o <<" ">>
                              \o Unwrap(FieldType(calls[i])))
      /\ Untyped(calls[i]) => LastHeaderLine(i, OCTET_STREAM_LINE)

C6Witness ==
  /\ Finished
  /\ NumFields = 2
  /\ calls[1].op = "add_stream" /\ ~IsSome(calls[1].content_type)
  /\ calls[2].op = "add_file" /\ ~IsSome(from_path(Unwrap(calls[2].path)))
  /\ LastHeaderLine(1, OCTET_STREAM_LINE)
  /\ LastHeaderLine(2, OCTET_STREAM_LINE)

DelimiterStarts(body) ==
  LET line == DelimiterLine
      closing == ClosingDelimiterLine
  IN  { i \in 1..Len(body) :
          /\ body[i] = "-"
          /\ LineStart(body, i)
          /\ OccursAt(line, body, i) \/ OccursAt(closing, body, i) }

\* the j-th smallest element of the set S of numbers
Nth(S, j) == CHOOSE x \in S : Cardinality({ y \in S : y < x }) = j - 1

\* part without its header block: what follows its first blank line
StripHeaders(part) ==
  LET blanks == Occurrences(BLANK_LINE, part)
  IN  IF blanks = {}
      THEN part
      ELSE SubSeq(part, Min(blanks) + Len(BLANK_LINE), Len(part))

\* body split on its delimiter lines, each part without the CRLF before the
\* next delimiter line and without its header block
Decode(body) ==
  LET S == DelimiterStarts(body)
      DelimiterLineLen == Len(DelimiterLine)
  IN  [ j \in 1..(Cardinality(S) - 1) |->
          StripHeaders(SubSeq(body,
                              Nth(S, j) + DelimiterLineLen,
                              Nth(S, j + 1) - Len(CRLF) - 1)) ]

Contents == [ i \in 1..NumFields |-> calls[i].content ]

\* no name or filename of a field holds a blank line
NoBlankLineInHeaders ==
  \A i \in 1..NumFields :
    \A s \in FieldTexts(calls[i]) \ {calls[i].content} :
      ~Contains(BLANK_LINE, s)

\* C8 as stated: when no field's content contains the delimiter, splitting
\* the body finish returns on its delimiter lines and stripping each part's
\* header block, up to the first blank line, gives the fields' contents
\* back, byte for byte and in call order.
C8Original ==
  (Finished /\ \A i \in 1..NumFields : ~Contains(Delimiter, calls[i].content))
    => Decode(Body) = Contents

\* C8, amended: when no field's content, name or filename contains the
\* delimiter and no field's name or filename holds a blank line (CRLF
\* CRLF), splitting the body finish returns on its delimiter lines and
\* stripping each part's header block, up to the first blank line, gives
\* the fields' contents back, byte for byte and in call order.
C8RoundTrip ==
  (Finished /\ NoCollision /\ NoBlankLineInHeaders) => Decode(Body) = Contents

C8Witness ==
  /\ Finished
  /\ NoCollision
  /\ NoBlankLineInHeaders
  /\ NumFields = 2
  /\ calls[1].op = "add_text"
  /\ calls[1].content = HI
  /\ calls[2].op = "add_file"
  /\ calls[2].content = EMPTY
  /\ Decode(Body) = <<HI, EMPTY>>

(***************************************************************************)
(* C9.  One boundary token.                                                 *)
(***************************************************************************)
\* the number of dashes t has from index i on, before anything else; runs
\* are told apart up to twice the length of the delimiter's
DashesAt(t, i) ==
  Min({ n \in 0..(2 * DASH_RUN_LEN) :
          i + n > Len(t) \/ t[i + n] # "-" \/ n = 2 * DASH_RUN_LEN })

\* s without the dashes it starts with
StripDashes(s) == SubSeq(s, DashesAt(s, 1) + 1, Len(s))

\* the token in a content type: its boundary parameter without the dash-run
TokenOf(content_type) ==
  StripDashes(SubSeq(content_type, Len(MULTIPART_FORM_DATA) + 1,
                     Len(content_type)))

\* the line of t that starts at index i is its dashes and then rest
LineIsDashesAnd(t, i, rest) ==
  /\ LineStart(t, i)
  /\ ~Contains(CRLF, rest)
  /\ OccursAt(rest \o CRLF, t, i + DashesAt(t, i))

\* where the delimiter line of field i, and the closing one, were written
DelimiterIndex(i) == calls[i].start + (IF i = 1 THEN 0 ELSE Len(CRLF)) + 1
ClosingIndex == FieldsEnd + (IF NumFields = 0 THEN 0 ELSE Len(CRLF)) + 1

\* C9: the content type finish returns is multipart/form-data with a
\* boundary parameter whose token is the builder's token, the one new
\* drew; every delimiter line of the body, dashes aside, is that token,
\* and the closing line is that token and "--".
C9OneBoundaryToken ==
  Finished =>
    LET token == TokenOf(Unwrap(result).content_type)
    IN  /\ StartsWith(MULTIPART_FORM_DATA, Unwrap(result).content_type)
        /\ token = boundary
        /\ boundary \in random_alphanumeric(BOUNDARY_LEN)
        /\ \A i \in 1..NumFields :
             LineIsDashesAnd(Body, DelimiterIndex(i), token)
        /\ LineIsDashesAnd(Body, ClosingIndex, token \o TWO_DASHES)

C9Witness ==
  /\ Finished
  /\ NumFields = 2
  /\ TokenOf(Unwrap(result).content_type) = boundary
  /\ boundary[1] # boundary[2]

(***************************************************************************)
(* C10.  The dash-run of the delimiter lines.                              *)
(***************************************************************************)
\* C10: every delimiter line an add_* call wrote and the closing line
\* finish wrote start with 29 dashes, neither more nor fewer, and the
\* boundary token right after them; nothing follows the token in the line
\* of a field, "--" follows it in the closing line, and the buffer ends
\* with that line's CRLF.
C10DashRunOfDelimiters ==
  /\ \A i \in 1..NumFields :
       /\ LineStart(inner, DelimiterIndex(i))
       /\ DashesAt(inner, DelimiterIndex(i)) = DASH_RUN_LEN
       /\ OccursAt(boundary \o CRLF, inner, DelimiterIndex(i) + DASH_RUN_LEN)
  /\ Finished =>
       /\ LineStart(Body, ClosingIndex)
       /\ DashesAt(Body, ClosingIndex) = DASH_RUN_LEN
       /\ OccursAt(boundary \o TWO_DASHES \o CRLF, Body,
                   ClosingIndex + DASH_RUN_LEN)
       /\ Len(Body) = ClosingIndex + DASH_RUN_LEN + Len(boundary)
                      + Len(TWO_DASHES) + Len(CRLF) - 1

C10Witness ==
  /\ Finished
  /\ NumFields = 2
  /\ DashesAt(Body, DelimiterIndex(2)) = DASH_RUN_LEN
  /\ DashesAt(Body, ClosingIndex) = DASH_RUN_LEN

(***************************************************************************)
(* C11.  The body is delimited as the content type announces.              *)
(***************************************************************************)
\* the boundary parameter of a content type: what follows
\* multipart/form-data; boundary=
BoundaryParameter(content_type) ==
  SubSeq(content_type, Len(MULTIPART_FORM_DATA) + 1, Len(content_type))

\* C11: in the pair finish returns, the boundary parameter of the content
\* type is 27 dashes and the token; the delimiter line of every field is
\* "--", that parameter and CRLF, and the closing line is "--", that
\* parameter, "--" and CRLF.
C11DelimitedAsAnnounced ==
  Finished =>
    LET parameter == BoundaryParameter(Unwrap(result).content_type)
    IN  /\ StartsWith(MULTIPART_FORM_DATA, Unwrap(result).content_type)
        /\ parameter = DashRun(PARAM_DASH_LEN) \o boundary
        /\ \A i \in 1..NumFields :
             /\ LineStart(Body, DelimiterIndex(i))
             /\ OccursAt(TWO_DASHES \o parameter \o CRLF, Body,
                         DelimiterIndex(i))
        /\ LineStart(Body, ClosingIndex)
        /\ OccursAt(TWO_DASHES \o parameter \o TWO_DASHES \o CRLF, Body,
                    ClosingIndex)
        /\ Len(Body) = ClosingIndex + Len(parameter) + 2 * Len(TWO_DASHES)
                       + Len(CRLF) - 1

C11Witness ==
  /\ Finished
  /\ NumFields = 2
  /\ calls[1].op = "add_stream"
  /\ OccursAt(TWO_DASHES \o BoundaryParameter(Unwrap(result).content_type)
              \o CRLF, Body, DelimiterIndex(2))

(***************************************************************************)
(* C12.  One delimiter line for each field and one closing line.           *)
(***************************************************************************)
\* the indices of body where a line that is a field's delimiter line starts
InteriorLines(body) ==
  LET line == DelimiterLine
  IN  { i \in 1..Len(body) :
          body[i] = "-" /\ LineStart(body, i) /\ OccursAt(line, body, i) }

\* field i starts with a delimiter line at the start of a line, with the
\* header block right after it, and its content is the last thing its call
\* wrote, the next call starting there
FieldIsDelimitedOnce(i) ==
  /\ LineStart(Body, DelimiterIndex(i))
  /\ OccursAt(DISPOSITION, Body, DelimiterIndex(i) + Len(DelimiterLine))
  /\ ContentEndsCall(i)
  /\ i < NumFields => calls[i + 1].start = calls[i].end

\* every field has its one delimiter line, and the closing line comes
\* right after the last field's content and its CRLF
FieldsDelimitedOnce ==
  /\ \A i \in 1..NumFields : FieldIsDelimitedOnce(i)
  /\ OccursAt(ClosingDelimiterLine, Body, ClosingIndex)

\* the delimiter lines of the body are those of the fields, one each, and
\* one closing line
OneLineForEachField ==
  LET starts == DelimiterStarts(Body)
      after == Len(Delimiter)
      interior == { i \in starts : OccursAt(CRLF, Body, i + after) }
      closing == { i \in starts : OccursAt(TWO_DASHES \o CRLF, Body, i + after) }
  IN  /\ interior = { DelimiterIndex(i) : i \in 1..NumFields }
      /\ Cardinality(interior) = NumFields
      /\ closing = {ClosingIndex}

\* C12 as stated: after n successful add_* calls and finish the body has
\* exactly n delimiter lines of fields and one closing delimiter line; each
\* field's header block follows its delimiter line directly, and nothing
\* is written after a field's content before the next add_* or finish.
C12Original ==
  Finished => (FieldsDelimitedOnce /\ OneLineForEachField)

\* C12, amended: the same, the count of the lines in the body being for
\* builds where no name, filename or content of an added field contains
\* the delimiter (dash-run + boundary token).
C12OneDelimiterLinePerField ==
  Finished =>
    /\ FieldsDelimitedOnce
    /\ NoCollision => OneLineForEachField

C12Witness ==
  /\ Finished
  /\ NoCollision
  /\ NumFields = 2
  /\ Cardinality(InteriorLines(Body)) = 2
  /\ ClosingLines(Body) = {ClosingIndex}

(***************************************************************************)
(* C13.  The buffer only grows.                                            *)
(***************************************************************************)
\* the buffer before the step is a prefix of the buffer after it
Appended ==
  /\ Len(inner) <= Len(inner')
  /\ \A k \in 1..Len(inner) : inner'[k] = inner[k]

\* C13: every add_text, add_stream, add_file and finish leaves the bytes
\* already in the buffer where they are and only appends to them, and
\* leaves the boundary token as it was.
C13AppendOnly == [][Appended /\ boundary' = boundary]_vars

C13Witness ==
  /\ Finished
  /\ NumFields = 2
  /\ calls[1].op = "add_text"
  /\ calls[2].op = "add_stream"
  /\ calls[1].start = 0
  /\ calls[1].end > 0
  /\ calls[2].start = calls[1].end
  /\ calls[2].end > calls[2].start
  /\ Len(inner) > calls[2].end
  /\ ContentEndsCall(1)

(***************************************************************************)
(* C14.  data_written says whether a field was written.                    *)
(***************************************************************************)
\* the buffer starts with the delimiter line and the header of a field
FieldWritten == StartsWith(DelimiterLine \o DISPOSITION, inner)

\* C14: while the builder exists (it is gone once finish has consumed
\* it), data_written is true exactly when the delimiter line and header of
\* a field are in the buffer, which is exactly when the buffer is not
\* empty; it is false after new, true after the first add_* that returned
\* Ok, and no step sets it back to false.
C14FlagIffFieldWritten ==
  /\ [](/\ owner # "consumed" =>
             /\ data_written <=> FieldWritten
             /\ data_written <=> inner # <<>>
        /\ ret = "new" => ~data_written
        /\ NumFields >= 1 => data_written)
  /\ [][data_written => data_written']_vars

C14Witness ==
  /\ owner = "caller"
  /\ NumFields = 2
  /\ data_written
  /\ FieldWritten

(***************************************************************************)
(* C15.  add_file is add_stream on the opened file.                        *)
(***************************************************************************)
\* the type inferred from the extension of the path, the generic binary
\* type when there is none to infer
InferredType(path) ==
  LET ext == extension(path)
      known == IF IsSome(ext) /\ path.ext_utf8
               THEN MimeTable(Unwrap(ext))
               ELSE None
  IN  IF IsSome(known) THEN Unwrap(known) ELSE APPLICATION_OCTET_STREAM

\* the final component of the path, when it has one that is valid UTF-8
Utf8FinalComponent(path) ==
  IF path.name_utf8 THEN file_name(path) ELSE None

\* add_file on a file that opens is add_stream on that file with the given
\* filename and the inferred type; on a file that does not open it
\* returns Err and the builder is as it was
AddFileIsAddStream(Filename(_)) ==
  owner = "caller" =>
    \A name \in FileNames, path \in Paths :
      /\ \A file \in Sources :
           add_file_body(self, name, path, Some(file))
             = add_stream_body(self, file, name, Filename(path),
                               Some(InferredType(path)))
      /\ add_file_body(self, name, path, None)
           = [ok |-> FALSE, builder |-> self]

\* C15 as stated: add_file(name, path) on a file that opens leaves the
\* builder as add_stream(file, name, filename, Some(type)) does, filename
\* being the final component of the path (absent when the path has none)
\* and type the type inferred from the extension; when the open fails
\* add_file returns the error with nothing appended.
C15Original == AddFileIsAddStream(file_name)

\* C15, amended: the same, filename being the final component of the path
\* when it is valid UTF-8, and absent when the path has no final component
\* or it is not valid UTF-8.
C15AddFileIsAddStream == AddFileIsAddStream(Utf8FinalComponent)

C15Witness ==
  /\ owner = "caller"
  /\ NumFields = 2
  /\ calls[1].op = "add_file"
  /\ calls[2].op = "add_file"
  /\ ~Unwrap(calls[1].path).name_utf8
  /\ IsSome(file_name(Unwrap(calls[1].path)))
  /\ IsSome(Utf8FinalComponent(Unwrap(calls[2].path)))
  /\ Contains(FILENAME_ATTR, SubSeq(inner, calls[2].start + 1, calls[2].end))
  /\ ~Contains(FILENAME_ATTR, SubSeq(inner, 1, calls[1].end))

(***************************************************************************)
(* C16.  Request::multipart posts what finish returns.                     *)
(***************************************************************************)
Request == Unwrap(request)

\* C16: a request built by Request::multipart has the method POST, the
\* body finish returned for the builder (the fields written so far and the
\* closing line), and the headers Accept: */* and Content-Type: the
\* content type finish returned; the builder is consumed, and there is no
\* request where a call returned an error.
C16MultipartPostsFinished ==
  /\ IsSome(request) =>
       /\ Finished
       /\ owner = "consumed"
       /\ ret = "Ok"
       /\ Request.method = <<"P", "O", "S", "T">>
       /\ Request.body = Body
       /\ Request.headers
            = [Accept |-> <<"*", "/", "*">>,
               ContentType |-> Unwrap(result).content_type]
       /\ Request.headers.ContentType
            = MULTIPART_FORM_DATA \o DashRun(PARAM_DASH_LEN) \o boundary
       /\ EndsWith(ClosingDelimiterLine, Request.body)
       /\ Len(Request.body) = ClosingIndex + Len(ClosingDelimiterLine) - 1
       /\ \A i \in 1..NumFields :
            OccursAt(DelimiterLine, Request.body, DelimiterIndex(i))
  /\ ret = "Err" => ~IsSome(request)

C16Witness ==
  /\ IsSome(request)
  /\ NumFields = 2
  /\ Request.method = <<"P", "O", "S", "T">>
  /\ Request.body = Body
  /\ Len(Request.body) > FieldsEnd
====
